---- MODULE Spec2Model ----
(***************************************************************************)
(* Model of the thumbworx dispatch service (src/app.py): the shared        *)
(* in-memory stores (drivers, deliveries, geofences), the road network G,  *)
(* the helper functions (suggest_route, assign_driver, check_geofence,     *)
(* plot_map) and the request handlers (add_delivery, assign_all, get_map,  *)
(* add_driver), which the threaded development server runs concurrently.   *)
(*                                                                         *)
(* Units.  Latitudes and longitudes are integers in 1e-4 degree            *)
(* (14.5547 is 145547).  Distances are integers in metres, so a score      *)
(* "kilometres + load" is "metres + 1000 * load".  eta_min is kept in      *)
(* tenths of a minute (1.6 min is 16), the resolution round(.., 1) leaves. *)
(***************************************************************************)
EXTENDS Integers, Sequences, FiniteSets, TLC

(***************************************************************************)
(* Values of the Python program.                                           *)
(***************************************************************************)
\* Python's None where the other values are integers (assigned_driver), and
\* where they are strings (the result of check_geofence).
None == -1
NoneStr == "<None>"

\* Python truthiness: None, 0 and the empty string are false.
Truthy(x) == x # None /\ x # 0
TruthyStr(x) == x # NoneStr /\ x # ""

\* A dictionary is a record with the field "keys", the set of the optional
\* keys it holds: d['eta_min'] and d['route_coords'] exist once they are
\* assigned, and a request item may lack 'lat', 'lon' or 'driver'.
HasKey(d, k) == k \in d.keys

\* A (lat, lon) pair.
Pt(lat, lon) == [lat |-> lat, lon |-> lon]

\* Sum of a sequence of integers (Python's sum()).
RECURSIVE SumSeq(_)
SumSeq(s) == IF s = <<>> THEN 0 ELSE Head(s) + SumSeq(Tail(s))

(***************************************************************************)
(* haversine((lat1, lon1), (lat2, lon2)): the great-circle distance.  At   *)
(* city scale and latitude 14.55 N it is the equirectangular distance with *)
(* 11.12 m per 1e-4 degree of latitude and 10.76 m per 1e-4 degree of      *)
(* longitude; this integer form is within a metre of the library's value   *)
(* for the points of the model.  Lengths are in decimetres inside the root.*)
(***************************************************************************)
RECURSIVE ISqrtIn(_, _, _)
ISqrtIn(n, lo, hi) ==
    IF lo >= hi THEN lo
    ELSE LET mid == (lo + hi + 1) \div 2
         IN IF mid * mid <= n THEN ISqrtIn(n, mid, hi) ELSE ISqrtIn(n, lo, mid - 1)

\* Integer square root, for n < 2^31.
ISqrt(n) == ISqrtIn(n, 0, 46340)

Abs(x) == IF x < 0 THEN -x ELSE x

\* Distance in metres between two points.
haversineCalc(a, b) ==
    LET dy == (1112 * Abs(a.lat - b.lat)) \div 10
        dx == (1076 * Abs(a.lon - b.lon)) \div 10
    IN ISqrt(dy * dy + dx * dx) \div 10

(***************************************************************************)
(* The points of the model.  The three seed drivers' positions, the job    *)
(* of the specification's scenarios B and C, and a few more.               *)
(***************************************************************************)
AlicePos == Pt(145547, 1210244)
BobPos == Pt(145550, 1210300)
CharliePos == Pt(145600, 1210200)
\* Inside the polygon of "No-Go Zone Makati".
InsidePos == Pt(145555, 1210240)
\* On the southern edge of that polygon.
EdgePos == Pt(145550, 1210240)
\* Outside the polygon, next to road node 4.
NearPos == Pt(145560, 1210260)
\* Outside the polygon, next to the isolated road node 5.
IsolatedPos == Pt(145530, 1210240)
\* A vertex of the polygon.
CornerPos == Pt(145550, 1210230)
FarPos == Pt(145570, 1210310)
WestPos == Pt(145590, 1210210)
SouthPos == Pt(145535, 1210250)

Places ==
    {AlicePos, BobPos, CharliePos, InsidePos, EdgePos, NearPos, IsolatedPos,
     CornerPos, FarPos, WestPos, SouthPos}

HaversineTable == [a \in Places |-> [b \in Places |-> haversineCalc(a, b)]]

\* haversine(a, b) in metres (the table caches haversineCalc).
haversine(a, b) ==
    IF a \in Places /\ b \in Places THEN HaversineTable[a][b] ELSE haversineCalc(a, b)

(***************************************************************************)
(* The road network G: a directed multigraph with a 'length' in metres on  *)
(* every edge.  It is loaded once at start-up and never changed.  Nodes 1  *)
(* and 2 with their 800 m edge are scenario A of the specification; node 5 *)
(* has no edge, so that nothing routes to or from it; the edge 3 -> 4 is   *)
(* one-way; 1 -> 4 has two parallel edges.  Lengths are multiples of 10 m  *)
(* and no two different paths between the same nodes have the same length. *)
(***************************************************************************)
GNodes ==
    <<[y |-> 145547, x |-> 1210244],
      [y |-> 145600, x |-> 1210200],
      [y |-> 145550, x |-> 1210300],
      [y |-> 145560, x |-> 1210260],
      [y |-> 145530, x |-> 1210240]>>

GEdges ==
    <<[u |-> 1, v |-> 2, length |-> 800],
      [u |-> 2, v |-> 1, length |-> 800],
      [u |-> 1, v |-> 4, length |-> 260],
      [u |-> 1, v |-> 4, length |-> 230],
      [u |-> 4, v |-> 1, length |-> 230],
      [u |-> 4, v |-> 2, length |-> 790],
      [u |-> 2, v |-> 4, length |-> 1100],
      [u |-> 3, v |-> 4, length |-> 450]>>

G == [nodes |-> GNodes, edges |-> GEdges]

NodeIds(g) == 1..Len(g.nodes)

NodePt(g, n) == Pt(g.nodes[n].y, g.nodes[n].x)

\* ox.nearest_nodes(G, X, Y): the node nearest to (lat Y, lon X); the
\* argmin takes the first (lowest) node among equally near ones.
nearest_nodes(g, X, Y) ==
    CHOOSE n \in NodeIds(g) :
        \A m \in NodeIds(g) :
            \/ haversine(NodePt(g, n), Pt(Y, X)) < haversine(NodePt(g, m), Pt(Y, X))
            \/ /\ haversine(NodePt(g, n), Pt(Y, X)) = haversine(NodePt(g, m), Pt(Y, X))
               /\ n <= m

\* No path: larger than any path length of the model.
Infinity == 1000000

MinOf(S) == CHOOSE x \in S : \A y \in S : x <= y

\* The lengths of the parallel edges u -> v.
EdgeLengths(g, u, v) ==
    {g.edges[i].length : i \in {j \in 1..Len(g.edges) : g.edges[j].u = u /\ g.edges[j].v = v}}

\* The weight Dijkstra uses for u -> v in a multigraph: the least 'length'
\* of the parallel edges.
EdgeWeight(g, u, v) ==
    IF EdgeLengths(g, u, v) = {} THEN Infinity ELSE MinOf(EdgeLengths(g, u, v))

\* Length of the shortest path u ~> v of at most k edges.
RECURSIVE PathLengthIn(_, _, _, _)
PathLengthIn(g, u, v, k) ==
    IF k = 0 THEN (IF u = v THEN 0 ELSE Infinity)
    ELSE MinOf({PathLengthIn(g, u, v, k - 1)} \cup
               {PathLengthIn(g, u, w, k - 1) + EdgeWeight(g, w, v) :
                    w \in {n \in NodeIds(g) : EdgeLengths(g, n, v) # {}}})

PathLengthTable ==
    [u \in NodeIds(G) |-> [v \in NodeIds(G) |-> PathLengthIn(G, u, v, Len(G.nodes) - 1)]]

\* nx.shortest_path_length(G, u, v, weight='length'); Infinity when
\* NetworkXNoPath is raised.
shortest_path_length(u, v) ==
    IF PathLengthTable[u][v] >= Infinity THEN Infinity ELSE PathLengthTable[u][v]

\* nx.shortest_path(G, u, v, weight='length'): the node sequence of the
\* shortest path, defined when one exists.
RECURSIVE shortest_path(_, _)
shortest_path(u, v) ==
    IF u = v THEN <<u>>
    ELSE LET w == CHOOSE n \in NodeIds(G) :
                      /\ n # v
                      /\ EdgeLengths(G, n, v) # {}
                      /\ shortest_path_length(u, n) + EdgeWeight(G, n, v)
                            = shortest_path_length(u, v)
         IN Append(shortest_path(u, w), v)

\* ox.utils_graph.get_route_edge_attributes(G, nodes, 'length'): for every
\* consecutive pair of the route the 'length' of its shortest parallel edge.
get_route_edge_attributes(g, nodes) ==
    [i \in 1..(Len(nodes) - 1) |-> MinOf(EdgeLengths(g, nodes[i], nodes[i + 1]))]

\* The assumed speed: 30 km/h ~ 500 m/min.
MetresPerMinute == 500

\* A changed RoundEta: the division truncates instead of rounding.
RoundEta_truncated(distance_m) == (distance_m * 10) \div MetresPerMinute

\* round(distance_m / 500, 1) in tenths of a minute.  The lengths of the
\* model are multiples of 10 m, so distance_m / 50 is never halfway between
\* two integers and the float tie rule does not matter.
RoundEta(distance_m) ==
    (distance_m * 10 + MetresPerMinute \div 2) \div MetresPerMinute

\* suggest_route(origin, destination) of src/app.py: the waypoints and the
\* ETA; ([], 0) when anything raises (here: NetworkXNoPath).
suggest_route_calc(origin, destination) ==
    LET orig_node == nearest_nodes(G, origin.lon, origin.lat)
        dest_node == nearest_nodes(G, destination.lon, destination.lat)
    IN IF shortest_path_length(orig_node, dest_node) >= Infinity
       THEN [coords |-> <<>>, eta |-> 0]
       ELSE LET nodes == shortest_path(orig_node, dest_node)
                distance_m == SumSeq(get_route_edge_attributes(G, nodes))
            IN [coords |-> [i \in 1..Len(nodes) |-> NodePt(G, nodes[i])],
                eta |-> RoundEta(distance_m)]

RouteTable == [o \in Places |-> [d \in Places |-> suggest_route_calc(o, d)]]

\* suggest_route(origin, destination) (the table caches suggest_route_calc).
suggest_route(origin, destination) ==
    IF origin \in Places /\ destination \in Places
    THEN RouteTable[origin][destination]
    ELSE suggest_route_calc(origin, destination)

\* suggest_route of src/tempCodeRunnerFile.py, the earlier copy of the
\* program: it sums the whole path length once per node of the path.
tempCodeRunner_suggest_route(origin, destination) ==
    LET orig_node == nearest_nodes(G, origin.lon, origin.lat)
        dest_node == nearest_nodes(G, destination.lon, destination.lat)
    IN IF shortest_path_length(orig_node, dest_node) >= Infinity
       THEN [coords |-> <<>>, eta |-> 0]
       ELSE LET nodes == shortest_path(orig_node, dest_node)
                distance_m ==
                    SumSeq([i \in 1..Len(nodes) |-> shortest_path_length(orig_node, dest_node)])
            IN [coords |-> [i \in 1..Len(nodes) |-> NodePt(G, nodes[i])],
                eta |-> RoundEta(distance_m)]

(***************************************************************************)
(* Geofences.  Point(lat, lon) and Polygon(gf['polygon']) use (lat, lon)   *)
(* as (x, y).  Polygon.contains is true for interior points only: a point  *)
(* on the boundary is not contained.                                       *)
(***************************************************************************)
\* The i-th edge of a polygon (the ring is closed implicitly).
PolyEdge(poly, i) == <<poly[i], poly[(i % Len(poly)) + 1]>>

\* p lies on the segment a-b.
OnSegment(a, b, p) ==
    /\ (b[1] - a[1]) * (p[2] - a[2]) = (b[2] - a[2]) * (p[1] - a[1])
    /\ (IF a[1] <= b[1] THEN a[1] <= p[1] /\ p[1] <= b[1] ELSE b[1] <= p[1] /\ p[1] <= a[1])
    /\ (IF a[2] <= b[2] THEN a[2] <= p[2] /\ p[2] <= b[2] ELSE b[2] <= p[2] /\ p[2] <= a[2])

\* The ray from p towards +x crosses the edge a-b.
Crosses(a, b, p) ==
    /\ (a[2] > p[2]) # (b[2] > p[2])
    /\ IF b[2] > a[2]
       THEN (p[1] - a[1]) * (b[2] - a[2]) < (p[2] - a[2]) * (b[1] - a[1])
       ELSE (p[1] - a[1]) * (b[2] - a[2]) > (p[2] - a[2]) * (b[1] - a[1])

\* Polygon(poly).contains(Point(p)).
contains(poly, p) ==
    /\ \A i \in 1..Len(poly) : ~OnSegment(PolyEdge(poly, i)[1], PolyEdge(poly, i)[2], p)
    /\ Cardinality({i \in 1..Len(poly) :
                        Crosses(PolyEdge(poly, i)[1], PolyEdge(poly, i)[2], p)}) % 2 = 1

\* A changed check_geofence_in: the last geofence that contains the point
\* wins.
check_geofence_in_last(gfs, lat, lon) ==
    LET hits == {g \in 1..Len(gfs) : contains(gfs[g].polygon, <<lat, lon>>)}
    IN IF hits = {} THEN NoneStr
       ELSE gfs[CHOOSE g \in hits : \A h \in hits : h <= g].name

\* A changed check_geofence_in: no polygon is tested.
check_geofence_in_none(gfs, lat, lon) == NoneStr

\* check_geofence over a geofence list: the name of the first geofence, in
\* list order, whose polygon contains the point, else None.
RECURSIVE check_geofence_in(_, _, _)
check_geofence_in(gfs, lat, lon) ==
    IF gfs = <<>> THEN NoneStr
    ELSE IF contains(Head(gfs).polygon, <<lat, lon>>) THEN Head(gfs).name
    ELSE check_geofence_in(Tail(gfs), lat, lon)

(***************************************************************************)
(* cluster_deliveries (lines 74-81).  KMeans(n_clusters, random_state=42)  *)
(* .fit(coords) is library code: it raises ValueError when n_clusters is   *)
(* larger than the number of samples, and otherwise gives every sample a   *)
(* label in 0..n_clusters-1, equal samples getting equal labels; which     *)
(* labelling it gives is left open.                                        *)
(***************************************************************************)
\* What KMeans(n_clusters).fit(coords) may do.
KMeansFit(coords, n_clusters) ==
    IF n_clusters < 1 \/ n_clusters > Len(coords)
    THEN {[raised |-> "ValueError", labels_ |-> <<>>]}
    ELSE {[raised |-> "", labels_ |-> l] :
            l \in {f \in [1..Len(coords) -> 0..(n_clusters - 1)] :
                     \A a, b \in 1..Len(coords) : coords[a] = coords[b] => f[a] = f[b]}}

\* The fit is not reached (line 75).
NoFit == [raised |-> "", labels_ |-> <<>>]

\* The items of ds with the given label, in the order of ds (lines 79-80).
RECURSIVE Labelled(_, _, _)
Labelled(ds, labels, label) ==
    IF ds = <<>> THEN <<>>
    ELSE (IF Head(labels) = label THEN <<Head(ds)>> ELSE <<>>)
            \o Labelled(Tail(ds), Tail(labels), label)

\* A changed cluster_deliveries: line 75 returns as many clusters as asked.
cluster_deliveries_padded(ds, n_clusters, fit) ==
    [raised |-> "",
     clusters |-> [i \in 0..(n_clusters - 1) |-> IF i = 0 THEN ds ELSE <<>>]]

\* cluster_deliveries(ds, n_clusters), with the outcome fit of KMeans:
\* the exception that ends the call, or the dictionary of clusters.
cluster_deliveries(ds, n_clusters, fit) ==
    IF Len(ds) <= 1 THEN [raised |-> "", clusters |-> [i \in {0} |-> ds]]
    ELSE IF fit.raised # "" THEN [raised |-> fit.raised, clusters |-> [i \in {} |-> <<>>]]
    ELSE [raised |-> "",
          clusters |-> [i \in 0..(n_clusters - 1) |-> Labelled(ds, fit.labels_, i)]]

(***************************************************************************)
(* The state.                                                              *)
(*   drivers, deliveries, geofences: the module-level stores.              *)
(*   aa[t]: the locals of the assign_all handler running on thread t, with *)
(*     two history fields: load0, the load of the chosen driver when it    *)
(*     was chosen, and rerun, whether the pass began in a settled state.   *)
(*   ad[t]: the locals of the add_delivery handler on thread t.            *)
(*   dr[t]: the locals of the add_driver handler on thread t.              *)
(*   rt: the calls of a function made on its own, with what it returned:   *)
(*     suggest_route (RouteSpec), check_geofence and cluster_deliveries.   *)
(* History variables, which no handler reads:                              *)
(*   calls[i]: how many times assign_driver was called for deliveries[i].  *)
(*   picks[k]: how many assign_driver calls chose drivers[k].              *)
(*   runs: how many assign_all requests have started.                      *)
(*   settled: a pass has finished its loop while no other pass was in the  *)
(*     middle of an assignment, and nothing was appended since.            *)
(*   partial_seen: some plot_map call rendered a half-assigned job green.  *)
(***************************************************************************)
VARIABLES drivers, deliveries, geofences, aa, ad, dr, rt,
          calls, picks, runs, settled, partial_seen

vars == <<drivers, deliveries, geofences, aa, ad, dr, rt,
          calls, picks, runs, settled, partial_seen>>

(***************************************************************************)
(* Bounds of the model.                                                    *)
(***************************************************************************)
\* Handler threads of each kind that may run at once.
PassThreads == {1, 2}
IntakeThreads == {1, 2}
DriverThreads == {1, 2}

\* Most deliveries ever requested, drivers ever present, assign_all
\* requests ever started, and items in one batch request.
MaxJobs == 2
MaxDrivers == 4
MaxRuns == 2
MaxBatch == 2

\* Bounds of the driver-registration specification (RegSpec).
RegMaxJobs == 1
RegMaxDrivers == 6

\* Where requested deliveries and new drivers may be.
JobPlaces == {InsidePos, NearPos, IsolatedPos}
DriverPlaces == {AlicePos}
RegJobPlaces == {InsidePos, NearPos}
RegDriverPlaces == {AlicePos, NearPos}

(***************************************************************************)
(* Initial stores (src/app.py lines 24-34).                                *)
(***************************************************************************)
InitDrivers ==
    <<[id |-> 1, driver |-> "Alice", lat |-> 145547, lon |-> 1210244, current_load |-> 1],
      [id |-> 2, driver |-> "Bob", lat |-> 145550, lon |-> 1210300, current_load |-> 2],
      [id |-> 3, driver |-> "Charlie", lat |-> 145600, lon |-> 1210200, current_load |-> 0]>>

InitGeofences ==
    <<[id |-> 1, name |-> "No-Go Zone Makati",
       polygon |-> <<<<145550, 1210230>>, <<145560, 1210230>>,
                     <<145560, 1210250>>, <<145550, 1210250>>>>]>>

\* The locals of an idle handler thread.
NoDelivery ==
    [id |-> 0, lat |-> 0, lon |-> 0, assigned_driver |-> None, keys |-> {},
     eta_min |-> 0, route_coords |-> <<>>]
NoDriver == [id |-> 0, driver |-> "", lat |-> 0, lon |-> 0, current_load |-> 0]

IdleAA == [pc |-> "idle", i |-> 0, driver |-> 0, load0 |-> 0, tmp |-> 0,
           eta |-> 0, route_coords |-> <<>>, response |-> <<>>, rerun |-> FALSE]
IdleAD == [pc |-> "idle", data |-> <<>>, delivery |-> NoDelivery, added |-> <<>>]
IdleDR == [pc |-> "idle", data |-> <<>>, driver |-> NoDriver, added |-> <<>>]

Init ==
    /\ drivers = InitDrivers
    /\ deliveries = <<>>
    /\ geofences = InitGeofences
    /\ aa = [t \in PassThreads |-> IdleAA]
    /\ ad = [t \in IntakeThreads |-> IdleAD]
    /\ dr = [t \in DriverThreads |-> IdleDR]
    /\ rt = <<>>
    /\ calls = <<>>
    /\ picks = [k \in 1..Len(InitDrivers) |-> 0]
    /\ runs = 0
    /\ settled = FALSE
    /\ partial_seen = FALSE

\* check_geofence(lat, lon) against the geofence store.
check_geofence(lat, lon) == check_geofence_in(geofences, lat, lon)

(***************************************************************************)
(* add_delivery (POST /delivery/request, lines 108-138).  A request body   *)
(* is a list of items or a single item (here a list of one).  For every    *)
(* item the handler builds the dictionary, which reads len(deliveries) for *)
(* the id and then the item's 'lat' and 'lon' (a KeyError ends the request *)
(* with an error), and appends it in a later step.  Receiving the request  *)
(* touches nothing shared and is one step with the first build.  'address' *)
(* and 'requested_time' are left out.                                      *)
(***************************************************************************)
DeliveryItems(places) ==
    {[keys |-> {"lat", "lon"}, lat |-> p.lat, lon |-> p.lon] : p \in places}
        \cup {[keys |-> {"lon"}, lat |-> 0, lon |-> NearPos.lon]}

Batches(items, n) == UNION {[1..k -> items] : k \in 1..n}

\* The handler threads of a kind are interchangeable: a new request is
\* taken by the lowest idle one.
LowestIdle(locals, t) ==
    /\ locals[t].pc = "idle"
    /\ \A u \in DOMAIN locals : u < t => locals[u].pc # "idle"

\* Items still to be appended by the handlers now running.
Pending(locals) ==
    SumSeq([t \in 1..Cardinality(DOMAIN locals) |-> Len(locals[t].data)])

\* The item has the keys the handler reads.
delivery_item_ok(d) == HasKey(d, "lat") /\ HasKey(d, "lon")

\* The delivery dictionary built from one item.
new_delivery(d) ==
    [id |-> Len(deliveries) + 1, lat |-> d.lat, lon |-> d.lon,
     assigned_driver |-> None, keys |-> {}, eta_min |-> 0, route_coords |-> <<>>]

\* The locals after the dictionary of the first item of data is built, or
\* after the KeyError that ends the request.  added (line 111) holds the
\* deliveries this request has appended, as their positions in the list.
ad_build(data, added) ==
    IF delivery_item_ok(Head(data))
    THEN [pc |-> "append", data |-> data, delivery |-> new_delivery(Head(data)),
          added |-> added]
    ELSE IdleAD

add_delivery_request(t, maxJobs, places) ==
    /\ LowestIdle(ad, t)
    /\ \E data \in Batches(DeliveryItems(places), MaxBatch) :
          /\ Len(deliveries) + Pending(ad) + Len(data) <= maxJobs
          /\ delivery_item_ok(Head(data))
          /\ ad' = [ad EXCEPT ![t] = ad_build(data, <<>>)]
    /\ UNCHANGED <<drivers, deliveries, geofences, aa, dr, rt,
                   calls, picks, runs, settled, partial_seen>>

\* A request whose first item raises KeyError: nothing is built.
add_delivery_reject(t) ==
    /\ LowestIdle(ad, t)
    /\ {d \in DeliveryItems({}) : ~delivery_item_ok(d)} # {}
    /\ ad' = [ad EXCEPT ![t] = IdleAD]
    /\ UNCHANGED <<drivers, deliveries, geofences, aa, dr, rt,
                   calls, picks, runs, settled, partial_seen>>

\* A changed deliveries_append: the deliveries already in the list lose
\* their driver.
deliveries_append_unassign(delivery) ==
    Append([j \in 1..Len(deliveries) |->
                [deliveries[j] EXCEPT !.assigned_driver = None]], delivery)

\* deliveries.append(delivery) (lines 123 and 136).
deliveries_append(delivery) == Append(deliveries, delivery)

add_delivery_append(t) ==
    /\ ad[t].pc = "append"
    /\ deliveries' = deliveries_append(ad[t].delivery)
    /\ calls' = Append(calls, 0)
    /\ settled' = FALSE
    /\ ad' = [ad EXCEPT ![t] =
                IF Len(ad[t].data) > 1
                THEN [IdleAD EXCEPT !.pc = "build", !.data = Tail(ad[t].data),
                                    !.added = Append(ad[t].added, Len(deliveries) + 1)]
                ELSE IdleAD]
    /\ UNCHANGED <<drivers, geofences, aa, dr, rt, picks, runs, partial_seen>>

\* The next item of a batch: its dictionary is built, or KeyError ends the
\* request with the earlier items appended.
add_delivery_build(t) ==
    /\ ad[t].pc = "build"
    /\ delivery_item_ok(Head(ad[t].data))
    /\ ad' = [ad EXCEPT ![t] = ad_build(ad[t].data, ad[t].added)]
    /\ UNCHANGED <<drivers, deliveries, geofences, aa, dr, rt,
                   calls, picks, runs, settled, partial_seen>>

add_delivery_keyerror(t) ==
    /\ ad[t].pc = "build"
    /\ ~delivery_item_ok(Head(ad[t].data))
    /\ ad' = [ad EXCEPT ![t] = ad_build(ad[t].data, ad[t].added)]
    /\ UNCHANGED <<drivers, deliveries, geofences, aa, dr, rt,
                   calls, picks, runs, settled, partial_seen>>

(***************************************************************************)
(* add_driver (POST /driver/add, lines 192-221), in the same steps.        *)
(* 'imei' is left out.                                                     *)
(***************************************************************************)
DriverItems(places) ==
    {[keys |-> {"driver", "lat", "lon"}, driver |-> "Dave", lat |-> p.lat, lon |-> p.lon] :
        p \in places}
        \cup {[keys |-> {"driver", "lat"}, driver |-> "Dave", lat |-> AlicePos.lat, lon |-> 0]}

driver_item_ok(d) == HasKey(d, "driver") /\ HasKey(d, "lat") /\ HasKey(d, "lon")

\* The driver dictionary built from one item.
new_driver(d) ==
    [id |-> Len(drivers) + 1, driver |-> d.driver, lat |-> d.lat, lon |-> d.lon,
     current_load |-> 0]

\* added (line 196) holds the positions of the drivers this request appended.
dr_build(data, added) ==
    IF driver_item_ok(Head(data))
    THEN [pc |-> "append", data |-> data, driver |-> new_driver(Head(data)),
          added |-> added]
    ELSE IdleDR

add_driver_request(t, maxDrivers, places) ==
    /\ LowestIdle(dr, t)
    /\ \E data \in Batches(DriverItems(places), MaxBatch) :
          /\ Len(drivers) + Pending(dr) + Len(data) <= maxDrivers
          /\ driver_item_ok(Head(data))
          /\ dr' = [dr EXCEPT ![t] = dr_build(data, <<>>)]
    /\ UNCHANGED <<drivers, deliveries, geofences, aa, ad, rt,
                   calls, picks, runs, settled, partial_seen>>

\* A request whose first item raises KeyError: nothing is built.
add_driver_reject(t) ==
    /\ LowestIdle(dr, t)
    /\ {d \in DriverItems({}) : ~driver_item_ok(d)} # {}
    /\ dr' = [dr EXCEPT ![t] = IdleDR]
    /\ UNCHANGED <<drivers, deliveries, geofences, aa, ad, rt,
                   calls, picks, runs, settled, partial_seen>>

add_driver_append(t) ==
    /\ dr[t].pc = "append"
    /\ drivers' = Append(drivers, dr[t].driver)
    /\ picks' = Append(picks, 0)
    /\ settled' = FALSE
    /\ dr' = [dr EXCEPT ![t] =
                IF Len(dr[t].data) > 1
                THEN [IdleDR EXCEPT !.pc = "build", !.data = Tail(dr[t].data),
                                    !.added = Append(dr[t].added, Len(drivers) + 1)]
                ELSE IdleDR]
    /\ UNCHANGED <<deliveries, geofences, aa, ad, rt, calls, runs, partial_seen>>

add_driver_build(t) ==
    /\ dr[t].pc = "build"
    /\ driver_item_ok(Head(dr[t].data))
    /\ dr' = [dr EXCEPT ![t] = dr_build(dr[t].data, dr[t].added)]
    /\ UNCHANGED <<drivers, deliveries, geofences, aa, ad, rt,
                   calls, picks, runs, settled, partial_seen>>

add_driver_keyerror(t) ==
    /\ dr[t].pc = "build"
    /\ ~driver_item_ok(Head(dr[t].data))
    /\ dr' = [dr EXCEPT ![t] = dr_build(dr[t].data, dr[t].added)]
    /\ UNCHANGED <<drivers, deliveries, geofences, aa, ad, rt,
                   calls, picks, runs, settled, partial_seen>>

(***************************************************************************)
(* assign_driver (lines 64-72).  min() returns the first driver of the     *)
(* list with the least key; it is taken to read the list in one step.      *)
(***************************************************************************)
\* haversine returns kilometres, to which the load is added.
MetresPerKm == 1000

\* The key of min(): haversine(driver, delivery) + current_load, in metres.
Score(d, delivery) ==
    haversine(Pt(d.lat, d.lon), Pt(delivery.lat, delivery.lon))
        + MetresPerKm * d.current_load

\* The index in drs of min(drs, key=Score): the first one with the least key.
best_driver(drs, delivery) ==
    CHOOSE k \in 1..Len(drs) :
        \A m \in 1..Len(drs) :
            \/ Score(drs[k], delivery) < Score(drs[m], delivery)
            \/ Score(drs[k], delivery) = Score(drs[m], delivery) /\ k <= m

\* A changed mark_assigned: the load is written instead of the id.
mark_assigned_load(delivery, best) ==
    [delivery EXCEPT !.assigned_driver = best.current_load]

\* delivery['assigned_driver'] = best_driver['id'] (line 69).
mark_assigned(delivery, best) == [delivery EXCEPT !.assigned_driver = best.id]

\* A changed already_assigned: the test of line 145 is missing.
already_assigned_never(delivery) == FALSE

\* The test of line 145: the delivery is skipped when this is true.
already_assigned(delivery) == Truthy(delivery.assigned_driver)

(***************************************************************************)
(* plot_map (lines 91-103): one marker per driver, one per delivery, green *)
(* when deliv.get('assigned_driver') is true and red otherwise.            *)
(***************************************************************************)
plot_map ==
    [drivers |-> [k \in 1..Len(drivers) |-> drivers[k].driver],
     deliveries |-> [j \in 1..Len(deliveries) |->
                        [id |-> deliveries[j].id,
                         color |-> IF Truthy(deliveries[j].assigned_driver)
                                   THEN "green" ELSE "red"]]]

\* deliveries[j] is half assigned: marked, but the load of its driver is
\* not yet incremented or its ETA or route is not yet attached.
HalfAssigned(j) ==
    /\ deliveries[j].assigned_driver # None
    /\ \/ ~HasKey(deliveries[j], "eta_min")
       \/ ~HasKey(deliveries[j], "route_coords")
       \/ \E t \in PassThreads : aa[t].i = j /\ aa[t].pc \in {"load", "store"}

\* What a plot_map call adds to the history: it showed a half-assigned job
\* as assigned.
SeenBy(m) ==
    partial_seen \/ \E j \in 1..Len(m.deliveries) :
                        m.deliveries[j].color = "green" /\ HalfAssigned(j)

\* get_map (GET /map, lines 176-178).
get_map ==
    /\ partial_seen' = SeenBy(plot_map)
    /\ UNCHANGED <<drivers, deliveries, geofences, aa, ad, dr, rt,
                   calls, picks, runs, settled>>

(***************************************************************************)
(* assign_all (GET /delivery/assign, lines 141-174) on thread t.           *)
(*   "for"    the for statement fetches the next delivery (aa[t].i counts  *)
(*            the items the list iterator has returned)                    *)
(*   "min"    assign_driver: the min() of lines 65-68                      *)
(*   "mark"   line 69                                                      *)
(*   "load", "store"   line 70, current_load += 1: a read, then a write    *)
(*   "route"  lines 151-152: suggest_route and d['eta_min']                *)
(*   "coords" lines 153-158: d['route_coords'] and the response entry      *)
(*   "plot"   line 160 and the return                                      *)
(***************************************************************************)
assign_all_request(t, maxRuns) ==
    /\ LowestIdle(aa, t)
    /\ runs < maxRuns
    /\ runs' = runs + 1
    /\ aa' = [aa EXCEPT ![t] = [IdleAA EXCEPT !.pc = "for", !.rerun = settled]]
    /\ UNCHANGED <<drivers, deliveries, geofences, ad, dr, rt,
                   calls, picks, settled, partial_seen>>

\* No other pass is between choosing a driver and attaching the route.
OthersAtRest(t) ==
    \A u \in PassThreads \ {t} : aa[u].pc \in {"idle", "for", "plot"}

\* The iterator is exhausted: the loop ends.
assign_all_stop(t) ==
    /\ aa[t].pc = "for"
    /\ aa[t].i >= Len(deliveries)
    /\ aa' = [aa EXCEPT ![t].pc = "plot"]
    /\ settled' = (settled \/ OthersAtRest(t))
    /\ UNCHANGED <<drivers, deliveries, geofences, ad, dr, rt,
                   calls, picks, runs, partial_seen>>

\* Lines 145-146: the delivery is already assigned.
assign_all_skip_assigned(t) ==
    /\ aa[t].pc = "for"
    /\ aa[t].i < Len(deliveries)
    /\ already_assigned(deliveries[aa[t].i + 1])
    /\ aa' = [aa EXCEPT ![t].i = aa[t].i + 1]
    /\ UNCHANGED <<drivers, deliveries, geofences, ad, dr, rt,
                   calls, picks, runs, settled, partial_seen>>

\* Lines 147-149: the delivery lies inside a geofence.
assign_all_skip_geofence(t) ==
    /\ aa[t].pc = "for"
    /\ aa[t].i < Len(deliveries)
    /\ ~already_assigned(deliveries[aa[t].i + 1])
    /\ TruthyStr(check_geofence(deliveries[aa[t].i + 1].lat, deliveries[aa[t].i + 1].lon))
    /\ aa' = [aa EXCEPT ![t].i = aa[t].i + 1]
    /\ UNCHANGED <<drivers, deliveries, geofences, ad, dr, rt,
                   calls, picks, runs, settled, partial_seen>>

\* Line 150: the delivery goes to assign_driver.
assign_all_take(t) ==
    /\ aa[t].pc = "for"
    /\ aa[t].i < Len(deliveries)
    /\ ~already_assigned(deliveries[aa[t].i + 1])
    /\ ~TruthyStr(check_geofence(deliveries[aa[t].i + 1].lat, deliveries[aa[t].i + 1].lon))
    /\ aa' = [aa EXCEPT ![t].i = aa[t].i + 1, ![t].pc = "min"]
    /\ UNCHANGED <<drivers, deliveries, geofences, ad, dr, rt,
                   calls, picks, runs, settled, partial_seen>>

\* Lines 65-68.
assign_driver_min(t) ==
    /\ aa[t].pc = "min"
    /\ LET best == best_driver(drivers, deliveries[aa[t].i])
       IN /\ aa' = [aa EXCEPT ![t].pc = "mark", ![t].driver = best,
                              ![t].load0 = drivers[best].current_load]
          /\ picks' = [picks EXCEPT ![best] = @ + 1]
    /\ calls' = [calls EXCEPT ![aa[t].i] = @ + 1]
    /\ UNCHANGED <<drivers, deliveries, geofences, ad, dr, rt,
                   runs, settled, partial_seen>>

\* Line 69.
assign_driver_mark(t) ==
    /\ aa[t].pc = "mark"
    /\ deliveries' = [deliveries EXCEPT
                        ![aa[t].i] = mark_assigned(@, drivers[aa[t].driver])]
    /\ aa' = [aa EXCEPT ![t].pc = "load"]
    /\ UNCHANGED <<drivers, geofences, ad, dr, rt,
                   calls, picks, runs, settled, partial_seen>>

\* Line 70, the read of best_driver['current_load'].
assign_driver_load(t) ==
    /\ aa[t].pc = "load"
    /\ aa' = [aa EXCEPT ![t].pc = "store", ![t].tmp = drivers[aa[t].driver].current_load]
    /\ UNCHANGED <<drivers, deliveries, geofences, ad, dr, rt,
                   calls, picks, runs, settled, partial_seen>>

\* Line 70, the write of best_driver['current_load'].
assign_driver_store(t) ==
    /\ aa[t].pc = "store"
    /\ drivers' = [drivers EXCEPT ![aa[t].driver].current_load = aa[t].tmp + 1]
    /\ aa' = [aa EXCEPT ![t].pc = "route", ![t].tmp = 0]
    /\ UNCHANGED <<deliveries, geofences, ad, dr, rt,
                   calls, picks, runs, settled, partial_seen>>

\* The route from the chosen driver to deliveries[i], as line 151 asks it.
route_for(t) ==
    suggest_route(Pt(drivers[aa[t].driver].lat, drivers[aa[t].driver].lon),
                  Pt(deliveries[aa[t].i].lat, deliveries[aa[t].i].lon))

\* Lines 151-152.
assign_all_route(t) ==
    /\ aa[t].pc = "route"
    /\ deliveries' = [deliveries EXCEPT ![aa[t].i].eta_min = route_for(t).eta,
                                         ![aa[t].i].keys = @ \cup {"eta_min"}]
    /\ aa' = [aa EXCEPT ![t].pc = "coords", ![t].eta = route_for(t).eta,
                        ![t].route_coords = route_for(t).coords]
    /\ UNCHANGED <<drivers, geofences, ad, dr, rt,
                   calls, picks, runs, settled, partial_seen>>

\* A changed response_entry: the ETA is left at 0.
response_entry_no_eta(d, driver, eta) ==
    [delivery_id |-> d.id, driver |-> driver.driver, eta_min |-> 0]

\* The entry line 154 appends to the response.
response_entry(d, driver, eta) ==
    [delivery_id |-> d.id, driver |-> driver.driver, eta_min |-> eta]

\* Lines 153-158; the loop then goes on to the next delivery.
assign_all_coords(t) ==
    /\ aa[t].pc = "coords"
    /\ deliveries' = [deliveries EXCEPT ![aa[t].i].route_coords = aa[t].route_coords,
                                         ![aa[t].i].keys = @ \cup {"route_coords"}]
    /\ aa' = [aa EXCEPT ![t].pc = "for", ![t].driver = 0, ![t].load0 = 0,
                        ![t].eta = 0, ![t].route_coords = <<>>,
                        ![t].response =
                            Append(@, response_entry(deliveries[aa[t].i],
                                                     drivers[aa[t].driver],
                                                     aa[t].eta))]
    /\ UNCHANGED <<drivers, geofences, ad, dr, rt,
                   calls, picks, runs, settled, partial_seen>>

\* Lines 160-174: the map is rendered and the response returned.
assign_all_return(t) ==
    /\ aa[t].pc = "plot"
    /\ partial_seen' = SeenBy(plot_map)
    /\ aa' = [aa EXCEPT ![t] = IdleAA]
    /\ UNCHANGED <<drivers, deliveries, geofences, ad, dr, rt,
                   calls, picks, runs, settled>>

assign_all(t, maxRuns) ==
    \/ assign_all_request(t, maxRuns)
    \/ assign_all_stop(t)
    \/ assign_all_skip_assigned(t)
    \/ assign_all_skip_geofence(t)
    \/ assign_all_take(t)
    \/ assign_driver_min(t)
    \/ assign_driver_mark(t)
    \/ assign_driver_load(t)
    \/ assign_driver_store(t)
    \/ assign_all_route(t)
    \/ assign_all_coords(t)
    \/ assign_all_return(t)

(***************************************************************************)
(* The service: two assign_all requests, one add_delivery and one          *)
(* add_driver request may run at once, with get_map at any time.  With     *)
(* MaxDrivers one above the three seed drivers, a driver request has one   *)
(* item.                                                                   *)
(***************************************************************************)
Next ==
    \/ \E t \in PassThreads : assign_all(t, MaxRuns)
    \/ add_delivery_request(1, MaxJobs, JobPlaces)
    \/ add_delivery_reject(1)
    \/ add_delivery_append(1)
    \/ add_delivery_build(1)
    \/ add_delivery_keyerror(1)
    \/ add_driver_request(1, MaxDrivers, DriverPlaces)
    \/ add_driver_reject(1)
    \/ add_driver_append(1)
    \/ get_map

Spec == Init /\ [][Next]_vars

(***************************************************************************)
(* Driver registration: two add_driver requests may run at once, beside    *)
(* one assign_all and single-item add_delivery requests.                   *)
(***************************************************************************)
RegNext ==
    \/ assign_all(1, MaxRuns)
    \/ add_delivery_request(1, RegMaxJobs, RegJobPlaces)
    \/ add_delivery_append(1)
    \/ \E t \in DriverThreads :
          \/ add_driver_request(t, RegMaxDrivers, RegDriverPlaces)
          \/ add_driver_reject(t)
          \/ add_driver_append(t)
          \/ add_driver_build(t)
          \/ add_driver_keyerror(t)

RegSpec == Init /\ [][RegNext]_vars

(***************************************************************************)
(* Job intake: two add_delivery requests, single or batch, may run at      *)
(* once.                                                                   *)
(***************************************************************************)
IntakeMaxJobs == 3
IntakePlaces == {InsidePos, NearPos}

IntakeNext ==
    \E t \in IntakeThreads :
        \/ add_delivery_request(t, IntakeMaxJobs, IntakePlaces)
        \/ add_delivery_reject(t)
        \/ add_delivery_append(t)
        \/ add_delivery_build(t)
        \/ add_delivery_keyerror(t)

IntakeSpec == Init /\ [][IntakeNext]_vars

(***************************************************************************)
(* suggest_route on its own: calls with origins and destinations drawn     *)
(* from the points of the model, of the function of src/app.py and of the  *)
(* copy in src/tempCodeRunnerFile.py.                                      *)
(***************************************************************************)
route_call(version, origin, destination) ==
    [version |-> version, origin |-> origin, destination |-> destination,
     result |-> IF version = "app" THEN suggest_route(origin, destination)
                ELSE tempCodeRunner_suggest_route(origin, destination)]

RouteCall ==
    /\ \E o \in Places, d \in Places : rt' = <<route_call("app", o, d)>>
    /\ UNCHANGED <<drivers, deliveries, geofences, aa, ad, dr,
                   calls, picks, runs, settled, partial_seen>>

RouteCallTemp ==
    /\ \E o \in Places, d \in Places : rt' = <<route_call("temp", o, d)>>
    /\ UNCHANGED <<drivers, deliveries, geofences, aa, ad, dr,
                   calls, picks, runs, settled, partial_seen>>

RouteNext == RouteCall \/ RouteCallTemp

RouteSpec == Init /\ [][RouteNext]_vars

(***************************************************************************)
(* check_geofence on its own (POST /geofence/check, lines 180-184), over   *)
(* geofence lists of up to three zones, two of which overlap.  The second  *)
(* action asks again for the point of the call before.                     *)
(***************************************************************************)
ZoneMakati == InitGeofences[1]
\* Contains the polygon of ZoneMakati.
ZoneWide ==
    [id |-> 2, name |-> "Zone Wide",
     polygon |-> <<<<145540, 1210220>>, <<145570, 1210220>>,
                   <<145570, 1210270>>, <<145540, 1210270>>>>]
\* Apart from ZoneMakati.
ZoneSouth ==
    [id |-> 3, name |-> "Zone South",
     polygon |-> <<<<145520, 1210230>>, <<145545, 1210230>>,
                   <<145545, 1210260>>, <<145520, 1210260>>>>]

Zones == {ZoneMakati, ZoneWide, ZoneSouth}

\* The lists of distinct zones, in every order.
GeofenceLists ==
    {gfs \in UNION {[1..k -> Zones] : k \in 0..Cardinality(Zones)} :
        \A a, b \in 1..Len(gfs) : a # b => gfs[a] # gfs[b]}

GeoInit ==
    /\ drivers = InitDrivers
    /\ deliveries = <<>>
    /\ geofences \in GeofenceLists
    /\ aa = [t \in PassThreads |-> IdleAA]
    /\ ad = [t \in IntakeThreads |-> IdleAD]
    /\ dr = [t \in DriverThreads |-> IdleDR]
    /\ rt = <<>>
    /\ calls = <<>>
    /\ picks = [k \in 1..Len(InitDrivers) |-> 0]
    /\ runs = 0
    /\ settled = FALSE
    /\ partial_seen = FALSE

\* The call of line 183 and the answer of line 184.
geofence_call(lat, lon) ==
    [call |-> "check_geofence", lat |-> lat, lon |-> lon,
     gf_name |-> check_geofence(lat, lon),
     inside_geofence |-> check_geofence(lat, lon) # NoneStr]

process_geofence(places) ==
    /\ \E p \in places : rt' = <<geofence_call(p.lat, p.lon)>>
    /\ UNCHANGED <<drivers, deliveries, geofences, aa, ad, dr,
                   calls, picks, runs, settled, partial_seen>>

process_geofence_again ==
    /\ Len(rt) = 1
    /\ rt' = Append(rt, geofence_call(rt[1].lat, rt[1].lon))
    /\ UNCHANGED <<drivers, deliveries, geofences, aa, ad, dr,
                   calls, picks, runs, settled, partial_seen>>

GeoNext == process_geofence(Places) \/ process_geofence_again

GeoSpec == GeoInit /\ [][GeoNext]_vars

(***************************************************************************)
(* cluster_deliveries on its own, over job lists of up to MaxClusterJobs   *)
(* jobs and cluster counts up to MaxClusters.                              *)
(***************************************************************************)
MaxClusterJobs == 3
MaxClusters == 4
ClusterPlaces == {InsidePos, NearPos, IsolatedPos}

JobLists ==
    UNION {{[j \in 1..k |-> [new_delivery(pl[j]) EXCEPT !.id = j]] :
                pl \in [1..k -> ClusterPlaces]} : k \in 0..MaxClusterJobs}

\* [lat, lon] of every job (line 76).
coords_of(ds) == [j \in 1..Len(ds) |-> <<ds[j].lat, ds[j].lon>>]

cluster_call(ds, n_clusters, fit) ==
    [call |-> "cluster_deliveries", jobs |-> ds, n_clusters |-> n_clusters,
     result |-> cluster_deliveries(ds, n_clusters, fit)]

\* The outcomes of KMeans the call may meet.
FitsFor(ds, n_clusters) ==
    IF Len(ds) <= 1 THEN {NoFit} ELSE KMeansFit(coords_of(ds), n_clusters)

ClusterCall ==
    /\ \E ds \in JobLists, n \in 1..MaxClusters :
          \E fit \in FitsFor(ds, n) : rt' = <<cluster_call(ds, n, fit)>>
    /\ UNCHANGED <<drivers, deliveries, geofences, aa, ad, dr,
                   calls, picks, runs, settled, partial_seen>>

ClusterNext == ClusterCall

ClusterSpec == Init /\ [][ClusterNext]_vars

(***************************************************************************)
(* Every operation beside one assign_all at a time: add_delivery,          *)
(* add_driver, get_map, check_geofence and cluster_deliveries over the job *)
(* list.                                                                   *)
(***************************************************************************)
FramePlaces == {InsidePos, NearPos}
FrameMaxClusters == 3

cluster_jobs ==
    /\ \E n \in 1..FrameMaxClusters :
          \E fit \in FitsFor(deliveries, n) : rt' = <<cluster_call(deliveries, n, fit)>>
    /\ UNCHANGED <<drivers, deliveries, geofences, aa, ad, dr,
                   calls, picks, runs, settled, partial_seen>>

FrameNext ==
    \/ assign_all(1, MaxRuns)
    \/ add_delivery_request(1, MaxJobs, FramePlaces)
    \/ add_delivery_reject(1)
    \/ add_delivery_append(1)
    \/ add_delivery_build(1)
    \/ add_delivery_keyerror(1)
    \/ add_driver_request(1, MaxDrivers, DriverPlaces)
    \/ add_driver_reject(1)
    \/ add_driver_append(1)
    \/ get_map
    \/ process_geofence(FramePlaces)
    \/ cluster_jobs

FrameSpec == Init /\ [][FrameNext]_vars

(***************************************************************************)
(* Properties.                                                             *)
(***************************************************************************)
JobIds == 1..Len(deliveries)
DriverIds == 1..Len(drivers)

\* The position of deliveries[j] lies inside the polygon of some geofence.
InsideGeofence(j) ==
    \E g \in 1..Len(geofences) :
        contains(geofences[g].polygon, <<deliveries[j].lat, deliveries[j].lon>>)

\* The load drivers[k] started with: the seed value, or 0 when registered.
InitLoad(k) == IF k <= Len(InitDrivers) THEN InitDrivers[k].current_load ELSE 0

\* C1: under every interleaving of assign_all passes each job is handed to
\* assign_driver at most once.
C1_AssignedAtMostOnce == \A j \in JobIds : calls[j] <= 1

\* C2: in every reachable state each driver's current_load is the number of
\* deliveries whose assigned_driver is that driver's id.
C2_LoadIsAssignedCount ==
    \A k \in DriverIds :
        drivers[k].current_load =
            Cardinality({j \in JobIds : deliveries[j].assigned_driver = drivers[k].id})

\* No assign_driver call is between its choice and its increment.
NoCallInFlight == \A t \in PassThreads : aa[t].pc \notin {"mark", "load", "store"}

\* C3: a driver's current_load is its initial load plus the number of
\* assign_driver calls that chose it (once those calls have finished), and
\* it never decreases from one state to the next.
C3_LoadIsInitialPlusPicks ==
    [][/\ \A k \in DriverIds : drivers'[k].current_load >= drivers[k].current_load
       /\ NoCallInFlight' =>
             \A k \in 1..Len(drivers') :
                 drivers'[k].current_load = InitLoad(k) + picks'[k]]_vars

\* C4: once a pass has finished its loop, and until a delivery or a driver
\* is added, no step changes a delivery or a driver and every pass skips
\* every delivery it fetches: a further pass is a no-op.
C4_SecondPassIsNoOp ==
    [][settled /\ settled' =>
          /\ deliveries' = deliveries
          /\ drivers' = drivers
          /\ \A t \in PassThreads : aa'[t].pc \in {"idle", "for", "plot"}]_vars

\* A later pass has fetched and skipped an assigned delivery.
C4_Witness ==
    /\ settled
    /\ \E t \in PassThreads :
          /\ aa[t].rerun
          /\ aa[t].pc = "for"
          /\ aa[t].i >= 1
          /\ already_assigned(deliveries[aa[t].i])

\* C5: a delivery inside a geofence polygon is never assigned: its
\* assigned_driver stays None, assign_driver is never called for it (so no
\* load changes on its account) and no ETA or route is attached to it.
C5_GeofencedNeverAssigned ==
    \A j \in JobIds :
        InsideGeofence(j) =>
            /\ deliveries[j].assigned_driver = None
            /\ deliveries[j].keys = {}
            /\ calls[j] = 0
            /\ \A t \in PassThreads :
                  aa[t].i = j => aa[t].pc \in {"idle", "for", "plot"}

\* Two passes have gone over a delivery that lies inside the geofence.
C5_Witness ==
    /\ runs = 2
    /\ \E j \in JobIds : InsideGeofence(j) /\ \A t \in PassThreads : aa[t].i >= j

\* C6: when the loop of a pass has ended, every delivery is either left
\* with None, and then it lies inside a geofence or there is no driver, or
\* has the id of a driver of the list.
C6_AfterPass ==
    \A t \in PassThreads :
        aa[t].pc = "plot" =>
            \A j \in 1..aa[t].i :
                IF deliveries[j].assigned_driver = None
                THEN InsideGeofence(j) \/ drivers = <<>>
                ELSE \E k \in DriverIds : drivers[k].id = deliveries[j].assigned_driver

\* A pass has ended with one delivery left unassigned and one assigned to
\* a driver registered while the service ran.
C6_Witness ==
    \E t \in PassThreads :
        /\ aa[t].pc = "plot"
        /\ aa[t].i = 2
        /\ \E j \in JobIds : deliveries[j].assigned_driver = None
        /\ \E j \in JobIds : deliveries[j].assigned_driver > Len(InitDrivers)

\* C7: the driver assign_driver chooses has the least score (distance plus
\* current load) of all drivers at the moment of the choice and, among the
\* drivers with that score, the lowest id.
C7_BestDriverChosen ==
    [][\A t \in PassThreads :
          (aa[t].pc = "min" /\ aa'[t].pc = "mark") =>
              \A k \in DriverIds :
                  /\ Score(drivers[aa'[t].driver], deliveries[aa[t].i])
                        <= Score(drivers[k], deliveries[aa[t].i])
                  /\ Score(drivers[aa'[t].driver], deliveries[aa[t].i])
                        = Score(drivers[k], deliveries[aa[t].i])
                        => drivers[aa'[t].driver].id <= drivers[k].id]_vars

\* C8: no plot_map call (get_map, or the one that ends assign_all) sees a
\* delivery marked assigned whose driver's load is not yet incremented or
\* whose ETA or route is not yet attached.
C8_NoPartialAssignmentSeen == ~partial_seen

\* C9: when suggest_route fails for a delivery ([] and 0 are returned), the
\* pass goes on with the next delivery and leaves this one assigned to the
\* chosen driver, whose load is incremented, with the empty route and ETA 0.
C9_RouteFailureKeepsAssignment ==
    [][\A t \in PassThreads :
          (aa[t].pc = "coords" /\ aa[t].route_coords = <<>> /\ aa[t].eta = 0) =>
              (aa'[t].pc # "coords" =>
                  /\ aa'[t].pc = "for"
                  /\ aa'[t].i = aa[t].i
                  /\ deliveries'[aa[t].i].route_coords = <<>>
                  /\ deliveries'[aa[t].i].eta_min = 0
                  /\ deliveries'[aa[t].i].assigned_driver = drivers[aa[t].driver].id
                  /\ drivers'[aa[t].driver].current_load > aa[t].load0)]_vars

\* The nodes of G at the waypoints of a route, and the length of the route:
\* the sum, over its consecutive nodes, of the least edge length.
NodeAt(p) == CHOOSE n \in NodeIds(G) : NodePt(G, n) = p
RouteLength(coords) ==
    SumSeq([i \in 1..(Len(coords) - 1) |->
                EdgeWeight(G, NodeAt(coords[i]), NodeAt(coords[i + 1]))])

\* The calls of suggest_route of src/app.py that found a route.
Routed == rt # <<>> /\ rt[1].version = "app" /\ rt[1].result.coords # <<>>

C11_RejectedRequestAddsNothing ==
    [][/\ \A t \in IntakeThreads :
             (ad[t].pc = "build" /\ ~delivery_item_ok(Head(ad[t].data))
                 /\ ad'[t].pc = "idle") => ad[t].added = <<>>
       /\ \A t \in DriverThreads :
             (dr[t].pc = "build" /\ ~driver_item_ok(Head(dr[t].data))
                 /\ dr'[t].pc = "idle") => dr[t].added = <<>>]_vars

\* C12: the response of a pass gets exactly one entry (job id, name of the
\* chosen driver, ETA of the route from that driver) when the pass has
\* assigned a job, for that job; no other step of the pass changes the
\* response, in particular none that skips a job; and the entries are in
\* the order of the jobs.
C12_ResponseEntries ==
    [][\A t \in PassThreads :
          /\ (aa[t].pc = "coords" /\ aa'[t].pc # "coords") =>
                /\ aa'[t].response =
                      Append(aa[t].response,
                             [delivery_id |-> deliveries[aa[t].i].id,
                              driver |-> drivers[aa[t].driver].driver,
                              eta_min |-> route_for(t).eta])
                /\ \A a, b \in 1..Len(aa'[t].response) :
                      a < b => aa'[t].response[a].delivery_id
                                  < aa'[t].response[b].delivery_id
          /\ aa[t].pc \in {"for", "min", "mark", "load", "store", "route"} =>
                /\ aa'[t].response = aa[t].response
                /\ aa'[t].i >= aa[t].i
                /\ Len(aa[t].response) <= aa[t].i
                /\ aa[t].pc # "for" => Len(aa[t].response) < aa[t].i]_vars

\* A pass has ended its loop over two jobs: it skipped the first, inside the
\* geofence, and its response has the one entry of the second.
C12_Witness ==
    \E t \in PassThreads :
        /\ aa[t].pc = "plot"
        /\ aa[t].i = 2
        /\ InsideGeofence(1)
        /\ Len(aa[t].response) = 1
        /\ aa[t].response[1].delivery_id = deliveries[2].id
        /\ aa[t].response[1].eta_min > 0

\* C13: an existing driver's current_load and an existing job's
\* assigned_driver change only in a step of assign_driver (line 70 and line
\* 69): no step of add_delivery, add_driver, check_geofence,
\* cluster_deliveries or plot_map changes them, and the geofence list never
\* changes.
C13_OnlyAssignmentChanges ==
    [][/\ (\E k \in DriverIds : drivers'[k].current_load # drivers[k].current_load)
            => \E t \in PassThreads : aa[t].pc = "store" /\ aa'[t].pc = "route"
       /\ (\E j \in JobIds : deliveries'[j].assigned_driver # deliveries[j].assigned_driver)
            => \E t \in PassThreads : aa[t].pc = "mark" /\ aa'[t].pc = "load"
       /\ Len(drivers') >= Len(drivers)
       /\ Len(deliveries') >= Len(deliveries)
       /\ geofences' = geofences]_vars

\* cluster_deliveries has run over two jobs, the first of them assigned, a
\* driver has been added, and the second job was requested later and is
\* not assigned.
C13_Witness ==
    /\ rt # <<>>
    /\ rt[1].call = "cluster_deliveries"
    /\ Len(rt[1].jobs) = 2
    /\ rt[1].jobs[1].assigned_driver # None
    /\ Len(drivers) > Len(InitDrivers)
    /\ Len(deliveries) = 2
    /\ deliveries[1].assigned_driver # None
    /\ deliveries[2].assigned_driver = None
    /\ \E k \in DriverIds : drivers[k].current_load > InitLoad(k)

\* The positions in the geofence list of the geofences whose polygon
\* contains the point of a check_geofence call.
Hits(c) ==
    {g \in 1..Len(geofences) : contains(geofences[g].polygon, <<c.lat, c.lon>>)}

\* C14: check_geofence returns the name of the geofence that contains the
\* point and comes first in the list, None when no geofence contains it,
\* and the same name when asked again for the same point.
C14_FirstGeofenceWins ==
    \A c \in 1..Len(rt) :
        rt[c].call = "check_geofence" =>
            /\ Hits(rt[c]) = {} => rt[c].gf_name = NoneStr /\ ~rt[c].inside_geofence
            /\ Hits(rt[c]) # {} =>
                  /\ \E g \in Hits(rt[c]) :
                        /\ \A h \in Hits(rt[c]) : g <= h
                        /\ rt[c].gf_name = geofences[g].name
                  /\ rt[c].inside_geofence
            /\ \A e \in 1..Len(rt) :
                  (rt[e].lat = rt[c].lat /\ rt[e].lon = rt[c].lon)
                      => rt[e].gf_name = rt[c].gf_name

\* Two calls for a point inside two geofences, of which the one inserted
\* later in the source comes first in the list: its name is returned.
C14_Witness ==
    /\ Len(rt) = 2
    /\ rt[2].call = "check_geofence"
    /\ Cardinality(Hits(rt[2])) = 2
    /\ geofences[1] = ZoneWide
    /\ ZoneMakati \in {geofences[g] : g \in Hits(rt[2])}
    /\ rt[2].gf_name = "Zone Wide"

\* The cluster_deliveries calls on record.
ClusterCalls == {c \in 1..Len(rt) : rt[c].call = "cluster_deliveries"}

\* C15: cluster_deliveries with no job or one job returns one cluster, with
\* key 0, that holds all the given jobs, whatever number of clusters was
\* asked for.
C15_FewJobsOneCluster ==
    \A c \in ClusterCalls :
        Len(rt[c].jobs) <= 1 =>
            /\ rt[c].result.raised = ""
            /\ DOMAIN rt[c].result.clusters = {0}
            /\ rt[c].result.clusters[0] = rt[c].jobs

\* One job, three clusters asked for: one cluster with that job.
C15_Witness ==
    /\ ClusterCalls # {}
    /\ Len(rt[1].jobs) = 1
    /\ rt[1].n_clusters = 3
    /\ rt[1].result.clusters[0] = rt[1].jobs

\* C16: cluster_deliveries with two or more jobs and more clusters than
\* jobs asked for does not fail: it returns that many clusters, every job is
\* in exactly one of them, and the clusters beyond the job count are empty.
C16_MoreClustersThanJobs ==
    \A c \in ClusterCalls :
        (Len(rt[c].jobs) >= 2 /\ rt[c].n_clusters > Len(rt[c].jobs)) =>
            /\ rt[c].result.raised = ""
            /\ DOMAIN rt[c].result.clusters = 0..(rt[c].n_clusters - 1)
            /\ \A j \in 1..Len(rt[c].jobs) :
                  Cardinality({<<i, m>> \in
                                  UNION {{i} \X (1..Len(rt[c].result.clusters[i])) :
                                            i \in DOMAIN rt[c].result.clusters} :
                                  rt[c].result.clusters[i][m] = rt[c].jobs[j]}) = 1
            /\ \A i \in DOMAIN rt[c].result.clusters :
                  i >= Len(rt[c].jobs) => rt[c].result.clusters[i] = <<>>

\* C17: no two jobs of the job list have the same id, whatever add_delivery
\* requests have run, one after the other or at once.
C17_JobIdsUnique ==
    \A a, b \in JobIds : a # b => deliveries[a].id # deliveries[b].id

\* C18: no two drivers of the driver list have the same id and every id is
\* positive, whatever add_driver requests have run, so that a job's
\* assigned_driver names one driver and passes the test of line 145.
C18_DriverIdsUniquePositive ==
    /\ \A a, b \in DriverIds : a # b => drivers[a].id # drivers[b].id
    /\ \A a \in DriverIds : drivers[a].id > 0
    /\ \A j \in JobIds :
          deliveries[j].assigned_driver # None =>
              /\ already_assigned(deliveries[j])
              /\ Cardinality({k \in DriverIds :
                                drivers[k].id = deliveries[j].assigned_driver}) = 1
====
